---- MODULE Spec2Model ----
(***************************************************************************)
(* Model of imaginairy/utils/animations.py: the bounce and slideshow       *)
(* builders, the make_animation dispatcher, the animated-image writer and  *)
(* the video writer with its frame-expansion generator.                    *)
(*                                                                         *)
(* An image is a record [id, kind, size, caption]; id is the position of   *)
(* the image in the caller's input sequence, kind is one of "pil",         *)
(* "tensor", "path", "lazy", "cv", size is <<width, height>>.  An output   *)
(* path is a sequence of one-character strings.                            *)
(***************************************************************************)
EXTENDS Integers, Sequences, FiniteSets, TLC

VARIABLES pc, entry, locals, animCalls, gifCalls, mp4Calls, out, gen, raised

vars == <<pc, entry, locals, animCalls, gifCalls, mp4Calls, out, gen, raised>>

-----------------------------------------------------------------------------
(* Bounds of the model *)

\* longest input sequence handed to the bounce and slideshow builders
MaxImgs == 5
\* longest frame / duration / caption list handed directly to make_animation
\* and make_mp4_animation
MaxFrames == 2

\* fps default of make_mp4_animation, the rate make_animation encodes at
DefaultFps == 30

-----------------------------------------------------------------------------
(* Input domains *)

SeqsUpTo(S, n) == UNION {[1..m -> S] : m \in 0..n}

ImgTemplates == { [kind |-> "pil", size |-> <<2, 1>>],
                  [kind |-> "tensor", size |-> <<1, 3>>] }

MkImg(i, t) == [id |-> i, kind |-> t.kind, size |-> t.size, caption |-> ""]

\* input sequences of the builders: image i carries id i
BuilderInputs(lo) ==
    { [i \in 1..Len(ts) |-> MkImg(i, ts[i])] :
        ts \in { s \in SeqsUpTo(ImgTemplates, MaxImgs) : Len(s) >= lo } }

FrameTemplates == { [kind |-> "pil", size |-> <<2, 1>>],
                    [kind |-> "path", size |-> <<2, 1>>] }

AnimInputs ==
    { [i \in 1..Len(ts) |-> MkImg(i, ts[i])] :
        ts \in SeqsUpTo(FrameTemplates, MaxFrames) }

Mp4Inputs ==
    { [i \in 1..n |-> MkImg(i, [kind |-> "pil", size |-> <<2, 1>>])] :
        n \in 0..MaxFrames }

P_gif == <<"a", ".", "g", "i", "f">>
P_GIF == <<"a", ".", "G", "I", "F">>
P_webp == <<"a", ".", "w", "e", "b", "p">>
P_mp4 == <<"a", ".", "m", "p", "4">>
P_Mp4 == <<"a", ".", "M", "p", "4">>
P_txt == <<"a", ".", "t", "x", "t">>
P_noext == <<"a">>
P_hidden == <<".", "g", "i", "f">>
P_trailing == <<"a", ".", "g", "i", "f", ".">>
P_dir == <<"d", ".", "m", "p", "4", "/", "a">>

PathSet == {P_gif, P_GIF, P_webp, P_mp4, P_Mp4, P_txt, P_noext, P_hidden,
            P_trailing, P_dir}

BuilderPaths == {P_gif, P_mp4, P_noext}

\* frame_duration_ms is an int or a list of ints
IntDur(d) == [isList |-> FALSE, val |-> d, list |-> <<>>]
ListDur(l) == [isList |-> TRUE, val |-> 0, list |-> l]

\* captions is None or a list of strings
NoCaptions == [isNone |-> TRUE, list |-> <<>>]
ListCaptions(l) == [isNone |-> FALSE, list |-> l]

TransitionDurations == {50, 500}
MaxFpsSet == {3, 20, 30}
StartPauses == {100}
EndPauses == {200}
ImagePauses == {50, 100}
AnimDurations == {50, 100}
Mp4Durations == {0, 40, 50, 1000}
Mp4FpsSet == {20, 30}

-----------------------------------------------------------------------------
(* Python built-ins *)

Max(a, b) == IF a >= b THEN a ELSE b

\* int(round(num / den)) for num >= 0, den > 0: Python 3 rounds a tie to the
\* even neighbour.
RoundHalfEven(num, den) ==
    LET q == num \div den
        r == num % den
    IN  IF 2 * r < den THEN q
        ELSE IF 2 * r > den THEN q + 1
        ELSE IF q % 2 = 0 THEN q ELSE q + 1

Reverse(s) == [i \in 1..Len(s) |-> s[Len(s) + 1 - i]]

Repeat(x, n) == [i \in 1..n |-> x]

\* tuple comparison of two (width, height) pairs: lexicographic
TupleLess(a, b) == a[1] < b[1] \/ (a[1] = b[1] /\ a[2] < b[2])

\* max() of a non-empty list of (width, height) tuples
TupleMax(sizes) ==
    CHOOSE m \in {sizes[i] : i \in 1..Len(sizes)} :
        \A i \in 1..Len(sizes) : ~TupleLess(m, sizes[i])

\* str.rfind of a single character, 1-based, 0 when absent
RFind(p, c) ==
    LET hits == {i \in 1..Len(p) : p[i] = c}
    IN  IF hits = {} THEN 0 ELSE CHOOSE i \in hits : \A h \in hits : h <= i

\* os.path.splitext(p)[1]
SplitextExt(p) ==
    LET sepIndex == RFind(p, "/")
        dotIndex == RFind(p, ".")
    IN  IF /\ dotIndex > sepIndex
           /\ \E f \in (sepIndex + 1)..(dotIndex - 1) : p[f] # "."
        THEN SubSeq(p, dotIndex, Len(p))
        ELSE <<>>

LowerChar(c) ==
    CASE c = "G" -> "g" [] c = "I" -> "i" [] c = "F" -> "f"
      [] c = "M" -> "m" [] c = "P" -> "p" [] c = "W" -> "w"
      [] c = "E" -> "e" [] c = "B" -> "b" [] OTHER -> c

Lower(s) == [i \in 1..Len(s) |-> LowerChar(s[i])]

\* str.strip(c) for a single character c
Strip(s, c) ==
    LET keep == {i \in 1..Len(s) : s[i] # c}
    IN  IF keep = {} THEN <<>>
        ELSE LET lo == CHOOSE i \in keep : \A k \in keep : i <= k
                 hi == CHOOSE i \in keep : \A k \in keep : k <= i
             IN  SubSeq(s, lo, hi)

\* the extension taken without .lower()
Ext_case_sensitive(outpath) == Strip(SplitextExt(outpath), ".")

\* ext = os.path.splitext(outpath)[1].lower().strip(".")
Ext(outpath) == Strip(Lower(SplitextExt(outpath)), ".")

E_gif == <<"g", "i", "f">>
E_webp == <<"w", "e", "b", "p">>
E_mp4 == <<"m", "p", "4">>

-----------------------------------------------------------------------------
(* Collaborators from imaginairy.utils and imaginairy.utils.img_utils *)

\* the order-preserving subsequence of items at the indices in I
Pick(items, I) ==
    LET F[i \in 0..Len(items)] ==
            IF i = 0 THEN <<>>
            ELSE IF i \in I THEN Append(F[i - 1], items[i]) ELSE F[i - 1]
    IN  F[Len(items)]

\* shrink_list(items, max_size): the list itself when it fits the budget,
\* otherwise some order-preserving selection of at most max_size items
shrink_list(items, max_size) ==
    IF Len(items) <= max_size THEN {items}
    ELSE { Pick(items, I) :
             I \in {J \in SUBSET (1..Len(items)) : Cardinality(J) <= max_size} }

\* model_latents_to_pillow_imgs(frame)[0]: the decoded image
model_latents_to_pillow_imgs(frame) == [frame EXCEPT !.kind = "pil"]

\* imgpaths_to_imgs: a path becomes a lazily loaded image, an image stays
imgpaths_to_imgs(imgs) ==
    [i \in 1..Len(imgs) |->
        IF imgs[i].kind = "path" THEN [imgs[i] EXCEPT !.kind = "lazy"]
        ELSE imgs[i]]

\* add_caption_to_image draws the caption onto the image, in place
add_caption_to_image(img, caption) == [img EXCEPT !.caption = caption]

\* pillow_img_to_opencv_img: the image as an OpenCV array
pillow_img_to_opencv_img(image) == [image EXCEPT !.kind = "cv"]

-----------------------------------------------------------------------------
(* select_images_by_duration_at_fps *)

\* num_frames with the product truncated instead of rounded
num_frames_truncated(duration_ms, fps) == (duration_ms * fps) \div 1000

\* num_frames = int(round(durations_ms[i] / 1000 * fps)).  For the durations
\* and rates drawn here (at most 2000 ms, at most 40 fps) the floating-point
\* product rounds exactly as the rational duration_ms * fps / 1000 does.
num_frames(duration_ms, fps) == RoundHalfEven(duration_ms * fps, 1000)

NoGen == [images |-> <<>>, durations |-> <<>>, fps |-> 0,
          i |-> 0, j |-> 0, n |-> 0]

\* the generator object, not yet started
select_images_by_duration_at_fps(images, durations_ms, fps) ==
    [images |-> images, durations |-> durations_ms, fps |-> fps,
     i |-> 0, j |-> 0, n |-> 0]

\* one next() on generator g: resume after the last yield and run to the
\* next yield, to the end of the images (StopIteration), or to the
\* IndexError of durations_ms[i] on a duration list that is too short
RECURSIVE GenNext(_)
GenNext(g) ==
    IF g.i >= 1 /\ g.j < g.n
    THEN [kind |-> "yield", image |-> g.images[g.i], g |-> [g EXCEPT !.j = g.j + 1]]
    ELSE IF g.i + 1 > Len(g.images)
    THEN [kind |-> "stop", g |-> [g EXCEPT !.i = g.i + 1, !.j = 0, !.n = 0]]
    ELSE IF g.i + 1 > Len(g.durations)
    THEN [kind |-> "raise", g |-> [g EXCEPT !.i = g.i + 1, !.j = 0, !.n = 0]]
    ELSE GenNext([g EXCEPT !.i = g.i + 1, !.j = 0,
                           !.n = num_frames(g.durations[g.i + 1], g.fps)])

-----------------------------------------------------------------------------
(* The writers.  A writer or dispatcher call is an operator from its        *)
(* arguments to its effect on the state: the writer invocations it makes,   *)
(* the video writer handle, the generator, the exception it raises and the  *)
(* place control is left at.                                                *)

NoOut == [opened |-> 0, released |-> 0, frames |-> <<>>, size |-> <<0, 0>>,
          fps |-> 0, outpath |-> <<>>]

NoEffect == [animCalls |-> <<>>, gifCalls |-> <<>>, mp4Calls |-> <<>>,
             out |-> NoOut, gen |-> NoGen, raised |-> "None", pc |-> "done"]

\* make_gif_animation: imgs[0].save(outpath, save_all=True,
\* append_images=imgs[1:], duration=frame_duration_ms, loop=loop)
make_gif_animation(imgs_in, outpath, frame_duration_ms, loop) ==
    LET imgs == imgpaths_to_imgs(imgs_in)
        call == [imgs |-> imgs_in, outpath |-> outpath,
                 frame_duration_ms |-> frame_duration_ms]
    IN  IF Len(imgs) = 0
        THEN [NoEffect EXCEPT !.gifCalls = <<call>>, !.raised = "IndexError"]
        ELSE [NoEffect EXCEPT !.gifCalls = <<call>>]

\* frame_duration_ms as the list the generator indexes
duration_list(frame_duration_ms, n) ==
    IF ~frame_duration_ms.isList THEN Repeat(frame_duration_ms.val, n)
    ELSE frame_duration_ms.list

\* make_mp4_animation up to the try statement: the writer is opened and the
\* generator created; the loop then runs one frame per step
make_mp4_animation(imgs_in, outpath, frame_duration_ms, fps) ==
    LET imgs == imgpaths_to_imgs(imgs_in)
        call == [imgs |-> imgs_in, outpath |-> outpath,
                 frame_duration_ms |-> frame_duration_ms, fps |-> fps]
    IN  IF Len(imgs) = 0
        THEN [NoEffect EXCEPT !.mp4Calls = <<call>>, !.raised = "IndexError"]
        ELSE [NoEffect EXCEPT
                !.mp4Calls = <<call>>,
                !.out = [opened |-> 1, released |-> 0, frames |-> <<>>,
                         size |-> imgs[1].size, fps |-> fps, outpath |-> outpath],
                !.gen = select_images_by_duration_at_fps(
                            imgs, duration_list(frame_duration_ms, Len(imgs)), fps),
                !.pc = "mp4_loop"]

\* if captions:
Truthy(captions) == ~captions.isNone /\ Len(captions.list) > 0

\* for img, caption in zip(imgs, captions): add_caption_to_image(img, caption)
add_captions(imgs, captions) ==
    [i \in 1..Len(imgs) |-> add_caption_to_image(imgs[i], captions.list[i])]

\* the dispatch with a plain else in place of elif ext == "mp4"
dispatch_else_mp4(ext) ==
    IF ext = E_gif \/ ext = E_webp THEN "gif" ELSE "mp4"

\* the branch of make_animation taken for extension ext
dispatch(ext) ==
    IF ext = E_gif \/ ext = E_webp THEN "gif"
    ELSE IF ext = E_mp4 THEN "mp4"
    ELSE "none"

\* the caption check raising only when the captions run short
captions_mismatch_short(imgs, captions) ==
    Truthy(captions) /\ Len(captions.list) < Len(imgs)

\* the caption check of make_animation raises
captions_mismatch(imgs, captions) ==
    Truthy(captions) /\ Len(captions.list) # Len(imgs)

make_animation(imgs_in, outpath, frame_duration_ms, captions) ==
    LET imgs == imgpaths_to_imgs(imgs_in)
        ext == Ext(outpath)
        call == [imgs |-> imgs_in, outpath |-> outpath,
                 frame_duration_ms |-> frame_duration_ms, captions |-> captions]
        eff ==
            IF captions_mismatch(imgs, captions)
            THEN [NoEffect EXCEPT !.raised = "ValueError"]
            ELSE LET drawn == IF Truthy(captions) THEN add_captions(imgs, captions)
                              ELSE imgs
                 IN  CASE dispatch(ext) = "gif" ->
                            make_gif_animation(drawn, outpath, frame_duration_ms, 0)
                       [] dispatch(ext) = "mp4" ->
                            make_mp4_animation(drawn, outpath, frame_duration_ms,
                                               DefaultFps)
                       [] OTHER -> NoEffect
    IN  [eff EXCEPT !.animCalls = <<call>>]

\* the state after a call with effect eff
Apply(eff) ==
    /\ animCalls' = eff.animCalls
    /\ gifCalls' = eff.gifCalls
    /\ mp4Calls' = eff.mp4Calls
    /\ out' = eff.out
    /\ gen' = eff.gen
    /\ raised' = eff.raised
    /\ pc' = eff.pc

-----------------------------------------------------------------------------
(* make_bounce_animation and make_slideshow_animation *)

\* max_frames = int(round(transition_duration_ms / 1000 * max_fps))
max_frames(transition_duration_ms, max_fps) ==
    RoundHalfEven(transition_duration_ms * max_fps, 1000)

\* min_duration = int(1000 / max_fps)
min_duration(max_fps) == 1000 \div max_fps

\* progress_duration without the max(progress_duration, min_duration) floor
progress_duration_unfloored(transition_duration_ms, n_middle, max_fps) ==
    IF n_middle > 0 THEN RoundHalfEven(transition_duration_ms, n_middle) ELSE 0

\* progress_duration, from the number of middle images before down-sampling
progress_duration(transition_duration_ms, n_middle, max_fps) ==
    Max(IF n_middle > 0 THEN RoundHalfEven(transition_duration_ms, n_middle)
        ELSE 0,
        min_duration(max_fps))

\* the frames without the backward pass
bounce_frames_forward_only(first_img, middle_imgs, last_img) ==
    <<first_img>> \o middle_imgs \o <<last_img>>

\* the frames with the backward pass not reversed
bounce_frames_unreversed(first_img, middle_imgs, last_img) ==
    <<first_img>> \o middle_imgs \o <<last_img>> \o middle_imgs

\* frames = [first_img, *middle_imgs, last_img, *list(reversed(middle_imgs))]
bounce_frames(first_img, middle_imgs, last_img) ==
    <<first_img>> \o middle_imgs \o <<last_img>> \o Reverse(middle_imgs)

\* the durations without those of the backward pass
bounce_durations_forward_only(start_ms, progress, end_ms, k) ==
    <<start_ms>> \o Repeat(progress, k) \o <<end_ms>>

\* durations = [start] + [progress] * k + [end] + [progress] * k
bounce_durations(start_pause_duration_ms, progress, end_pause_duration_ms, k) ==
    <<start_pause_duration_ms>> \o Repeat(progress, k)
        \o <<end_pause_duration_ms>> \o Repeat(progress, k)

_ensure_pillow_images(imgs) ==
    [i \in 1..Len(imgs) |->
        IF imgs[i].kind = "tensor" THEN model_latents_to_pillow_imgs(imgs[i])
        ELSE imgs[i]]

\* max_size = max([frame.size for frame in imgs])
max_size(imgs) == TupleMax([i \in 1..Len(imgs) |-> imgs[i].size])

\* frame.resize(size)
Resize(frame, size) == [frame EXCEPT !.size = size]

_ensure_images_same_size(imgs) ==
    [i \in 1..Len(imgs) |->
        IF imgs[i].size # max_size(imgs) THEN Resize(imgs[i], max_size(imgs))
        ELSE imgs[i]]

\* the frames of the slideshow: tensors decoded, the rest as given
slideshow_frames(imgs) ==
    [i \in 1..Len(imgs) |->
        IF imgs[i].kind = "tensor" THEN model_latents_to_pillow_imgs(imgs[i])
        ELSE imgs[i]]

\* durations = [image_pause_ms] * len(converted_frames)
slideshow_durations(image_pause_ms, converted_frames) ==
    Repeat(image_pause_ms, Len(converted_frames))

NoLocals == [op |-> "none"]

-----------------------------------------------------------------------------
(* The state machine: one call of an entry point, then the steps of the    *)
(* video writer's loop when the call reaches it.                            *)

Init ==
    /\ pc = "idle"
    /\ entry = [op |-> "none"]
    /\ locals = NoLocals
    /\ animCalls = <<>>
    /\ gifCalls = <<>>
    /\ mp4Calls = <<>>
    /\ out = NoOut
    /\ gen = NoGen
    /\ raised = "None"

MakeBounceAnimation ==
    /\ pc = "idle"
    /\ \E imgs \in BuilderInputs(0), outpath \in BuilderPaths,
          D \in TransitionDurations, sp \in StartPauses, ep \in EndPauses,
          F \in MaxFpsSet :
        /\ entry' = [op |-> "make_bounce_animation", imgs |-> imgs,
                     outpath |-> outpath, transition_duration_ms |-> D,
                     start_pause_duration_ms |-> sp,
                     end_pause_duration_ms |-> ep, max_fps |-> F]
        /\ IF Len(imgs) = 0
           THEN \* first_img = imgs[0] raises
                /\ locals' = NoLocals
                /\ Apply([NoEffect EXCEPT !.raised = "IndexError"])
           ELSE LET first_img == imgs[1]
                    middle == SubSeq(imgs, 2, Len(imgs) - 1)
                    last_img == imgs[Len(imgs)]
                    budget == max_frames(D, F)
                    progress == progress_duration(D, Len(middle), F)
                IN  \E middle_imgs \in shrink_list(middle, budget) :
                      LET frames == bounce_frames(first_img, middle_imgs, last_img)
                          pillow == _ensure_pillow_images(frames)
                          converted_frames == _ensure_images_same_size(pillow)
                          durations == bounce_durations(sp, progress, ep,
                                                        Len(middle_imgs))
                      IN  /\ locals' = [op |-> "bounce",
                                        n_middle |-> Len(middle),
                                        max_frames |-> budget,
                                        min_duration |-> min_duration(F),
                                        progress_duration |-> progress,
                                        middle_imgs |-> middle_imgs,
                                        frames |-> frames,
                                        pillow |-> pillow,
                                        converted_frames |-> converted_frames,
                                        durations |-> durations]
                          /\ Apply(make_animation(converted_frames, outpath,
                                                  ListDur(durations), NoCaptions))

MakeSlideshowAnimation ==
    /\ pc = "idle"
    /\ \E imgs \in BuilderInputs(0), outpath \in BuilderPaths,
          image_pause_ms \in ImagePauses :
        LET converted_frames == slideshow_frames(imgs)
            durations == slideshow_durations(image_pause_ms, converted_frames)
        IN  /\ entry' = [op |-> "make_slideshow_animation", imgs |-> imgs,
                         outpath |-> outpath, image_pause_ms |-> image_pause_ms]
            /\ locals' = [op |-> "slideshow",
                          converted_frames |-> converted_frames,
                          durations |-> durations]
            /\ Apply(make_animation(converted_frames, outpath,
                                    ListDur(durations), NoCaptions))

\* the frame_duration_ms arguments tried on n frames
AnimDurArgs(n) ==
    {IntDur(d) : d \in AnimDurations}
        \cup {ListDur(l) : l \in [1..n -> AnimDurations]}

CaptionArgs ==
    {NoCaptions} \cup {ListCaptions(l) : l \in SeqsUpTo({"c"}, MaxFrames)}

MakeAnimation ==
    /\ pc = "idle"
    /\ \E imgs \in AnimInputs, outpath \in PathSet, captions \in CaptionArgs :
        \E frame_duration_ms \in AnimDurArgs(Len(imgs)) :
            /\ entry' = [op |-> "make_animation", imgs |-> imgs,
                         outpath |-> outpath,
                         frame_duration_ms |-> frame_duration_ms,
                         captions |-> captions]
            /\ locals' = NoLocals
            /\ Apply(make_animation(imgs, outpath, frame_duration_ms, captions))

MakeGifAnimation ==
    /\ pc = "idle"
    /\ \E imgs \in AnimInputs, outpath \in {P_gif, P_webp},
          frame_duration_ms \in {IntDur(d) : d \in AnimDurations} :
        /\ entry' = [op |-> "make_gif_animation", imgs |-> imgs,
                     outpath |-> outpath,
                     frame_duration_ms |-> frame_duration_ms]
        /\ locals' = NoLocals
        /\ Apply(make_gif_animation(imgs, outpath, frame_duration_ms, 0))

Mp4DurArgs ==
    {IntDur(d) : d \in Mp4Durations}
        \cup {ListDur(l) : l \in SeqsUpTo(Mp4Durations, MaxFrames)}

MakeMp4Animation ==
    /\ pc = "idle"
    /\ \E imgs \in Mp4Inputs, frame_duration_ms \in Mp4DurArgs,
          fps \in Mp4FpsSet :
        /\ entry' = [op |-> "make_mp4_animation", imgs |-> imgs,
                     outpath |-> P_mp4,
                     frame_duration_ms |-> frame_duration_ms, fps |-> fps]
        /\ locals' = NoLocals
        /\ Apply(make_mp4_animation(imgs, P_mp4, frame_duration_ms, fps))

\* a raise that leaves make_mp4_animation at once, as without try/finally
on_raise_unwind == "done"

\* where control goes when the body of the try statement raises
on_raise == "mp4_finally"

\* the loop body: the generator yields, the image is converted and written
Mp4WriteFrame ==
    /\ pc = "mp4_loop"
    /\ GenNext(gen).kind = "yield"
    /\ gen' = GenNext(gen).g
    /\ out' = [out EXCEPT
                 !.frames = Append(@, pillow_img_to_opencv_img(GenNext(gen).image))]
    /\ UNCHANGED <<pc, entry, locals, animCalls, gifCalls, mp4Calls, raised>>

\* pillow_img_to_opencv_img raises on the yielded image
Mp4ConvertRaises ==
    /\ pc = "mp4_loop"
    /\ GenNext(gen).kind = "yield"
    /\ gen' = GenNext(gen).g
    /\ raised' = "ConvertError"
    /\ pc' = on_raise
    /\ UNCHANGED <<entry, locals, animCalls, gifCalls, mp4Calls, out>>

\* out.write raises on the converted image
Mp4WriteRaises ==
    /\ pc = "mp4_loop"
    /\ GenNext(gen).kind = "yield"
    /\ gen' = GenNext(gen).g
    /\ raised' = "WriteError"
    /\ pc' = on_raise
    /\ UNCHANGED <<entry, locals, animCalls, gifCalls, mp4Calls, out>>

\* durations_ms[i] raises inside the generator: the duration list is short
Mp4GeneratorRaises ==
    /\ pc = "mp4_loop"
    /\ GenNext(gen).kind = "raise"
    /\ gen' = GenNext(gen).g
    /\ raised' = "IndexError"
    /\ pc' = on_raise
    /\ UNCHANGED <<entry, locals, animCalls, gifCalls, mp4Calls, out>>

\* the generator is exhausted: the for loop ends
Mp4LoopEnds ==
    /\ pc = "mp4_loop"
    /\ GenNext(gen).kind = "stop"
    /\ gen' = GenNext(gen).g
    /\ pc' = "mp4_finally"
    /\ UNCHANGED <<entry, locals, animCalls, gifCalls, mp4Calls, out, raised>>

\* finally: out.release(); a pending exception then propagates
Mp4Release ==
    /\ pc = "mp4_finally"
    /\ out' = [out EXCEPT !.released = @ + 1]
    /\ pc' = "done"
    /\ UNCHANGED <<entry, locals, animCalls, gifCalls, mp4Calls, gen, raised>>

Next ==
    \/ MakeBounceAnimation
    \/ MakeSlideshowAnimation
    \/ MakeAnimation
    \/ MakeGifAnimation
    \/ MakeMp4Animation
    \/ Mp4WriteFrame
    \/ Mp4ConvertRaises
    \/ Mp4WriteRaises
    \/ Mp4GeneratorRaises
    \/ Mp4LoopEnds
    \/ Mp4Release

Spec == Init /\ [][Next]_vars

-----------------------------------------------------------------------------
(* Properties *)

Abs(x) == IF x < 0 THEN -x ELSE x

Ids(imgs) == [i \in 1..Len(imgs) |-> imgs[i].id]

\* the i-th per-frame duration a writer call c was given
DurationAt(c, i) ==
    IF c.frame_duration_ms.isList THEN c.frame_duration_ms.list[i]
    ELSE c.frame_duration_ms.val

\* the repeat counts the frame-expansion rule allows for d ms at rate f: the
\* integers within 1/2 of d * f / 1000, and exactly 2 for 50 ms at 30 fps
\* and exactly 20 for 1000 ms at 20 fps
AllowedCounts(d, f) ==
    IF d = 50 /\ f = 30 THEN {2}
    ELSE IF d = 1000 /\ f = 20 THEN {20}
    ELSE {n \in 0..((d * f) \div 1000 + 1) : 2 * Abs(1000 * n - d * f) <= 1000}

\* w[pos..] is frames i.. of call c in order, each repeated an allowed
\* number of consecutive times
RECURSIVE Expands(_, _, _, _)
Expands(w, pos, c, i) ==
    IF i > Len(c.imgs) THEN pos = Len(w) + 1
    ELSE \E n \in AllowedCounts(DurationAt(c, i), c.fps) :
            /\ pos + n - 1 <= Len(w)
            /\ \A k \in pos..(pos + n - 1) :
                  /\ w[k].id = c.imgs[i].id
                  /\ w[k].size = c.imgs[i].size
                  /\ w[k].caption = c.imgs[i].caption
            /\ Expands(w, pos + n, c, i + 1)

\* C1: when make_mp4_animation completes without an error, the frames
\* written to the video writer are the source frames in their original
\* order, frame i repeated consecutively n_i times with n_i the integer
\* nearest to d_i / 1000 * fps (2 for 50 ms at 30 fps, 20 for 1000 ms at
\* 20 fps), and a frame with n_i = 0 not written at all.
C1_FrameExpansion ==
    (pc = "done" /\ out.opened = 1 /\ raised = "None") =>
        Expands(out.frames, 1, mp4Calls[1], 1)

C1_Witness ==
    /\ pc = "done"
    /\ raised = "None"
    /\ entry.op = "make_mp4_animation"
    /\ entry.fps = 30
    /\ entry.frame_duration_ms = ListDur(<<50, 0>>)
    /\ Len(entry.imgs) = 2
    /\ Ids(out.frames) = <<1, 1>>

\* C2 as stated: every make_animation call with a captions list whose
\* length differs from the number of frames fails with a value error and
\* invokes no writer.
C2_AnyCaptionsListMismatchRaises ==
    \A i \in 1..Len(animCalls) :
        (/\ ~animCalls[i].captions.isNone
         /\ Len(animCalls[i].captions.list) # Len(animCalls[i].imgs))
        => (/\ raised = "ValueError"
            /\ gifCalls = <<>>
            /\ mp4Calls = <<>>
            /\ out.opened = 0)

\* C2 amended: every make_animation call with a non-empty captions list
\* whose length differs from the number of frames fails with a value error
\* and invokes no writer.
C2_NonEmptyCaptionsMismatchRaises ==
    \A i \in 1..Len(animCalls) :
        (/\ ~animCalls[i].captions.isNone
         /\ Len(animCalls[i].captions.list) > 0
         /\ Len(animCalls[i].captions.list) # Len(animCalls[i].imgs))
        => (/\ raised = "ValueError"
            /\ pc = "done"
            /\ gifCalls = <<>>
            /\ mp4Calls = <<>>
            /\ out.opened = 0)

C2_Witness ==
    /\ pc = "done"
    /\ raised = "ValueError"
    /\ Len(animCalls) = 1
    /\ animCalls[1].outpath = P_mp4
    /\ Len(animCalls[1].captions.list) = 2
    /\ Len(animCalls[1].imgs) = 1

\* C3: once the video writer is opened it is released exactly once on every
\* path through make_mp4_animation, also when the generator, the conversion
\* or the write raises part-way; nothing is written after the release and
\* the error is still pending when the call is left.
C3_WriterReleasedOnce ==
    [][ /\ (out.released >= 1 => out' = out)
        /\ out'.released <= 1
        /\ (pc' = "done" /\ out'.opened = 1 => out'.released = 1)
        /\ (raised # "None" => raised' = raised)
        /\ (pc = "mp4_loop" /\ pc' # "mp4_loop" /\ GenNext(gen).kind # "stop"
              => raised' # "None") ]_vars

C3_Witness ==
    /\ pc = "done"
    /\ raised = "IndexError"
    /\ out.opened = 1
    /\ out.released = 1
    /\ Len(out.frames) > 0
    /\ Len(mp4Calls[1].frame_duration_ms.list) < Len(mp4Calls[1].imgs)

\* C4: the duration list that make_bounce_animation (non-empty input) and
\* make_slideshow_animation (any input) pass to make_animation is a list of
\* exactly as many durations as there are frames in the frame list passed.
C4_DurationsMatchFrames ==
    locals.op \in {"bounce", "slideshow"} =>
        /\ Len(animCalls) = 1
        /\ animCalls[1].frame_duration_ms.isList
        /\ Len(animCalls[1].frame_duration_ms.list) = Len(animCalls[1].imgs)

C4_Witness ==
    /\ locals.op = "bounce"
    /\ Len(locals.middle_imgs) = 1
    /\ locals.n_middle = 2
    /\ \E i \in 1..Len(entry.imgs) : entry.imgs[i].kind = "tensor"
    /\ Len(animCalls[1].imgs) = 4

\* C5 as stated: with N >= 1 middle frames the per-frame transition
\* duration p is at least int(1000 / F), and p times the number of middle
\* frames kept equals D within rounding tolerance (one millisecond per
\* middle frame), whether or not frames were dropped.
C5_TransitionSumIsD ==
    (locals.op = "bounce" /\ locals.n_middle >= 1) =>
        /\ locals.progress_duration >= 1000 \div entry.max_fps
        /\ Abs(Len(locals.middle_imgs) * locals.progress_duration
                 - entry.transition_duration_ms) <= locals.n_middle

\* C5 amended: p is at least int(1000 / F) for every N >= 1; and when N is
\* within the frame budget and the floor does not bind, that is
\* round(D / N) >= int(1000 / F), no frame is dropped and N * p is within
\* N / 2 of D.
C5_TransitionSumIsDWhenFloorIdle ==
    (locals.op = "bounce" /\ locals.n_middle >= 1) =>
        /\ locals.progress_duration >= 1000 \div entry.max_fps
        /\ (/\ locals.n_middle <= locals.max_frames
            /\ RoundHalfEven(entry.transition_duration_ms, locals.n_middle)
                 >= 1000 \div entry.max_fps)
           => /\ Len(locals.middle_imgs) = locals.n_middle
              /\ 2 * Abs(Len(locals.middle_imgs) * locals.progress_duration
                           - entry.transition_duration_ms) <= locals.n_middle

C5_Witness ==
    /\ locals.op = "bounce"
    /\ locals.n_middle = 3
    /\ locals.n_middle <= locals.max_frames
    /\ locals.progress_duration > 1000 \div entry.max_fps
    /\ Len(locals.middle_imgs) * locals.progress_duration
         # entry.transition_duration_ms

\* C6: for every non-empty input of make_bounce_animation the number of
\* frames handed to make_animation is 2 + 2 * k, k the number of middle
\* frames left after down-sampling, and k is at most the frame budget
\* round(transition_duration_ms / 1000 * max_fps).
C6_BounceFrameCount ==
    locals.op = "bounce" =>
        /\ Len(animCalls) = 1
        /\ Len(animCalls[1].imgs) = 2 + 2 * Len(locals.middle_imgs)
        /\ Len(locals.middle_imgs) <= locals.max_frames
        /\ 2 * Abs(1000 * locals.max_frames
                     - entry.transition_duration_ms * entry.max_fps) <= 1000

C6_Witness ==
    /\ locals.op = "bounce"
    /\ Len(entry.imgs) = 1
    /\ Len(animCalls[1].imgs) = 2

\* C7: a make_animation call without captions whose output path has an
\* extension other than gif, webp or mp4, or none, returns normally and
\* invokes neither writer.
C7_UnknownExtensionIsSilent ==
    \A i \in 1..Len(animCalls) :
        (/\ animCalls[i].captions.isNone
         /\ Ext(animCalls[i].outpath) \notin {E_gif, E_webp, E_mp4})
        => (/\ pc = "done"
            /\ raised = "None"
            /\ gifCalls = <<>>
            /\ mp4Calls = <<>>
            /\ out.opened = 0)

C7_Witness ==
    /\ pc = "done"
    /\ raised = "None"
    /\ entry.op = "make_animation"
    /\ animCalls[1].outpath = P_hidden
    /\ animCalls[1].captions.isNone
    /\ Len(animCalls[1].imgs) = 2
    /\ gifCalls = <<>>
    /\ mp4Calls = <<>>

\* the writer call w was given what the make_animation call c was given
SameArguments(w, c) ==
    /\ Ids(w.imgs) = Ids(c.imgs)
    /\ w.outpath = c.outpath
    /\ w.frame_duration_ms = c.frame_duration_ms

\* C8: a make_animation call invokes at most one writer, chosen from the
\* extension of the output path alone and without regard to case: gif and
\* webp go to make_gif_animation, mp4 goes to make_mp4_animation, anything
\* else to neither; the writer gets the frames in order, the output path
\* and the duration argument unchanged.  (A call the caption check rejects
\* reaches no writer.)
C8_DispatchByExtension ==
    \A i \in 1..Len(animCalls) :
        LET c == animCalls[i]
            rejected == raised = "ValueError"
        IN  /\ Len(gifCalls) + Len(mp4Calls) <= 1
            /\ (c.outpath \in {P_gif, P_GIF, P_webp} /\ ~rejected)
                 => Len(gifCalls) = 1
            /\ (c.outpath \in {P_mp4, P_Mp4} /\ ~rejected) => Len(mp4Calls) = 1
            /\ Len(gifCalls) = 1
                 => /\ Lower(SplitextExt(c.outpath))
                         \in {<<".">> \o E_gif, <<".">> \o E_webp}
                    /\ SameArguments(gifCalls[1], c)
            /\ Len(mp4Calls) = 1
                 => /\ Lower(SplitextExt(c.outpath)) = <<".">> \o E_mp4
                    /\ SameArguments(mp4Calls[1], c)

C8_Witness ==
    /\ pc = "done"
    /\ entry.op = "make_animation"
    /\ animCalls[1].outpath = P_GIF
    /\ Len(gifCalls) = 1
    /\ Len(gifCalls[1].imgs) = 2
    /\ gifCalls[1].frame_duration_ms = ListDur(<<50, 100>>)
    /\ raised = "None"

\* C9: with k middle frames kept, the frames and durations built by
\* make_bounce_animation are: frame 0 the first input image with the start
\* pause, frames 1..k the kept middle frames in input order, frame k+1 the
\* last input image with the end pause, and for every i in 1..k frame
\* 2k+2-i the same image as frame i, both with the transition duration.
\* (Frames are counted from 0 in the claim and from 1 in the sequences.)
C9_BounceIsMirrored ==
    locals.op = "bounce" =>
        LET fr == animCalls[1].imgs
            du == animCalls[1].frame_duration_ms.list
            k == Len(locals.middle_imgs)
            n == Len(entry.imgs)
        IN  /\ fr[1].id = 1
            /\ du[1] = entry.start_pause_duration_ms
            /\ fr[k + 2].id = n
            /\ du[k + 2] = entry.end_pause_duration_ms
            /\ \A i \in 1..k :
                  /\ fr[i + 1].id = locals.middle_imgs[i].id
                  /\ fr[i + 1].id \in 2..(n - 1)
                  /\ (i < k => fr[i + 1].id < fr[i + 2].id)
                  /\ fr[2 * k + 3 - i] = fr[i + 1]
                  /\ du[i + 1] = locals.progress_duration
                  /\ du[2 * k + 3 - i] = du[i + 1]

C9_Witness ==
    /\ locals.op = "bounce"
    /\ Len(locals.middle_imgs) = 2
    /\ locals.n_middle = 3
    /\ Ids(animCalls[1].imgs) = <<1, 2, 4, 5, 4, 2>>
    /\ entry.imgs[2].kind = "tensor"

\* C10: after _ensure_images_same_size in the bounce builder all frames
\* have the same dimensions, which are those of an input frame that no
\* input frame exceeds in width or in height; frames already of that size
\* are returned unchanged, and the number and order of frames is kept.
C10_NormalizedToLargest ==
    locals.op = "bounce" =>
        LET given == locals.pillow
            got == locals.converted_frames
        IN  /\ Ids(got) = Ids(given)
            /\ \A i \in 1..Len(got) :
                  /\ got[i].size = got[1].size
                  /\ given[i].size[1] <= got[i].size[1]
                  /\ given[i].size[2] <= got[i].size[2]
                  /\ (given[i].size = got[1].size => got[i] = given[i])
            /\ \E i \in 1..Len(given) : given[i].size = got[1].size

====
